---- MODULE Spec2Model ----
(***************************************************************************)
(* State-machine model of scripts/fetch_silverware_week.mjs: the weekly    *)
(* Silverware order aggregation (listOrders / getOrder with their POST ->  *)
(* GET fallback, the field extractors, collectForWeek's paging loop,       *)
(* writeOverrides and main's per-location error isolation).                *)
(*                                                                         *)
(* Currency amounts are integers in thousandths of a currency unit, so     *)
(* 10.00 is 10000 and round2 (to cents) is not the identity.               *)
(***************************************************************************)
EXTENDS Integers, Sequences, FiniteSets, TLC

VARIABLES
    env,        \* process.env: per location, whether base / token are set
    upstream,   \* references to the bodies the order API may answer GetOrders with
    pc,         \* position of main / collectForWeek
    k,          \* index of the current entry in Object.entries(LOCS)
    page, orders, food, voids, promos, more,   \* locals of collectForWeek
    payload,    \* collectForWeek: reference to the body listOrders returned
    r,          \* index of the row being processed
    o,          \* the order whose lines are being summed
    j,          \* index of the next line of o
    req,        \* HTTP requests issued by the listOrders/getOrder call in flight
    result,     \* outcome of that call: "pending", "ok" or "error"
    ret,        \* value that call returned
    totals,     \* value returned by collectForWeek
    db,         \* the document store: location key -> override document
    listLog,    \* the listOrders calls of the current location: page asked, rows got
    attempted,  \* location keys collectForWeek was called for, in order
    fetchFailed,\* location keys whose listOrders/getOrder call raised
    writeCalls, \* the calls of writeOverrides: location key and totals
    console,    \* console.warn / console.log / console.error lines
    exitStatus, \* argument of process.exit, or -1 while the process runs
    probe,      \* a line record handed to lineTotal on its own
    probeOut    \* what lineTotal returned for it

vars == <<env, upstream, pc, k, page, orders, food, voids, promos, more,
          payload, r, o, j, req, result, ret, totals, db, listLog, attempted,
          fetchFailed, writeCalls, console, exitStatus, probe, probeOut>>

-----------------------------------------------------------------------------
(* Bounds of the model *)

\* The upstream holds at most MaxPages full pages of orders for one location.
MaxPages == 2

\* PageSize of the GetOrders request and of the pager test.
PageSize == 500

-----------------------------------------------------------------------------
(* JavaScript values *)

Undefined == [t |-> "undefined"]
Null      == [t |-> "null"]
NaN       == [t |-> "NaN"]
Num(n)    == [t |-> "number", v |-> n]
Str(s)    == [t |-> "string", v |-> s]
Bool(b)   == [t |-> "boolean", v |-> b]
Arr(s)    == [t |-> "array", v |-> s]
Obj(f)    == [t |-> "object", v |-> f]

\* A reference to a parsed response body, named by the body it refers to.
Ref(n)    == [t |-> "ref", v |-> n]

\* x?.f
Get(x, f) == IF x.t = "object" /\ f \in DOMAIN x.v THEN x.v[f] ELSE Undefined

Truthy(x) ==
    CASE x.t = "number"  -> x.v # 0
      [] x.t = "string"  -> Len(x.v) > 0
      [] x.t = "boolean" -> x.v
      [] x.t \in {"array", "object"} -> TRUE
      [] OTHER -> FALSE

\* a || b
Or(a, b) == IF Truthy(a) THEN a ELSE b

\* a ?? b
Coalesce(a, b) == IF a.t \in {"undefined", "null"} THEN b ELSE a

Digits == <<"0", "1", "2", "3", "4", "5", "6", "7", "8", "9">>
IsDigit(c) == \E d \in 1..10 : Digits[d] = c
DigitVal(c) == (CHOOSE d \in 1..10 : Digits[d] = c) - 1

RECURSIVE DigitsValue(_)
DigitsValue(s) ==
    IF Len(s) = 0 THEN 0
    ELSE DigitsValue(SubSeq(s, 1, Len(s) - 1)) * 10 + DigitVal(s[Len(s)])

\* Number(s) of a string: an optional sign, digits, and at most three decimals;
\* the empty string is 0 and anything else is NaN.
StringToNumber(s) ==
    LET neg  == Len(s) > 0 /\ s[1] = "-"
        body == IF neg THEN SubSeq(s, 2, Len(s)) ELSE s
        dots == {i \in 1..Len(body) : body[i] = "."}
        dot  == IF dots = {} THEN Len(body) + 1 ELSE CHOOSE i \in dots : TRUE
        int  == SubSeq(body, 1, dot - 1)
        frac == SubSeq(body, dot + 1, Len(body))
        pad  == frac \o SubSeq(<<"0", "0", "0">>, 1, 3 - Len(frac))
        ok   == /\ Cardinality(dots) <= 1
                /\ Len(int) + Len(frac) > 0
                /\ Len(frac) <= 3
                /\ \A i \in 1..Len(int) : IsDigit(int[i])
                /\ \A i \in 1..Len(frac) : IsDigit(frac[i])
        mag  == DigitsValue(int) * 1000 + DigitsValue(pad)
    IN  IF Len(s) = 0 THEN Num(0)
        ELSE IF ok THEN Num(IF neg THEN -mag ELSE mag)
        ELSE NaN

\* Number(v)
ToNumber(x) ==
    CASE x.t = "number"    -> x
      [] x.t = "string"    -> StringToNumber(x.v)
      [] x.t = "boolean"   -> Num(IF x.v THEN 1000 ELSE 0)
      [] x.t = "null"      -> Num(0)
      [] OTHER             -> NaN

Upper == <<"A", "B", "C", "D", "E", "F", "G", "H", "I", "J", "K", "L", "M",
           "N", "O", "P", "Q", "R", "S", "T", "U", "V", "W", "X", "Y", "Z">>
Lower == <<"a", "b", "c", "d", "e", "f", "g", "h", "i", "j", "k", "l", "m",
           "n", "o", "p", "q", "r", "s", "t", "u", "v", "w", "x", "y", "z">>

\* The characters of the model's strings and their lower-case forms.
Chars == {Upper[n] : n \in 1..26} \cup {Lower[n] : n \in 1..26}
            \cup {Digits[n] : n \in 1..10} \cup {" ", "-", "."}

LowerOf ==
    [c \in Chars |-> IF \E n \in 1..26 : Upper[n] = c
                     THEN Lower[CHOOSE n \in 1..26 : Upper[n] = c]
                     ELSE c]

toLowerCase(s) == [i \in 1..Len(s) |-> LowerOf[s[i]]]

\* String(v) of a string or of a boolean
ToStr(x) ==
    CASE x.t = "string"  -> x.v
      [] x.t = "boolean" -> IF x.v THEN <<"t", "r", "u", "e">>
                                   ELSE <<"f", "a", "l", "s", "e">>
      [] OTHER -> <<>>

\* name.includes(h)
includes(name, h) ==
    \E i \in 0..(Len(name) - Len(h)) : SubSeq(name, i + 1, i + Len(h)) = h

Max(a, b) == IF a >= b THEN a ELSE b

-----------------------------------------------------------------------------
(* Configuration *)

LOCS == <<"beacon", "tulia", "prohibition", "cesoir">>

FOOD_HINTS == << <<"f", "o", "o", "d">>, <<"k", "i", "t", "c", "h", "e", "n">> >>

-----------------------------------------------------------------------------
(* Flexible extractors *)

\* The result of num is a number of thousandths; NaN || 0 is 0.
num(x) ==
    LET c == IF x.t = "number" THEN x
             ELSE IF Truthy(x) THEN ToNumber(x) ELSE Num(0)
    IN  IF Truthy(c) THEN c.v ELSE 0

\* a || b on numbers
OrNum(a, b) == IF a # 0 THEN a ELSE b

\* The line collections of the model's orders are arrays.
orderLines(x) ==
    LET f == Or(Get(x, "Lines"), Or(Get(x, "Items"), Or(Get(x, "OrderLines"),
             Or(Get(x, "OrderItems"), Or(Get(x, "CheckLines"), Arr(<<>>))))))
    IN  IF f.t = "array" THEN f.v ELSE <<>>

lineTotal_swapped(line) ==
    OrNum(num(Get(line, "LineTotal")),
    OrNum(num(Get(line, "NetTotal")),
    OrNum(num(Get(line, "ExtendedPrice")),
    OrNum(num(Get(line, "Total")),
          num(Get(line, "Amount"))))))

lineTotal(line) ==
    OrNum(num(Get(line, "NetTotal")),
    OrNum(num(Get(line, "LineTotal")),
    OrNum(num(Get(line, "ExtendedPrice")),
    OrNum(num(Get(line, "Total")),
          num(Get(line, "Amount"))))))

lineDiscount(line) ==
    OrNum(num(Get(line, "Discount")),
    OrNum(num(Get(line, "DiscountAmount")), 0))

orderHeaderDiscount(x) ==
    OrNum(num(Get(x, "DiscountTotal")),
    OrNum(num(Get(x, "PromotionsTotal")),
    OrNum(num(Get(x, "CheckDiscountTotal")),
    OrNum(num(Get(x, "TotalDiscount")), 0))))

lineCategoryName(line) ==
    toLowerCase(ToStr(
        Or(Get(line, "SalesCategoryName"), Or(Get(line, "CategoryName"),
        Or(Get(line, "MenuGroup"), Or(Get(line, "Family"),
        Or(Get(line, "Category"), Str(<<>>))))))))

\* const name = lineCategoryName(line), evaluated once
looksLikeFood(line) ==
    \E name \in {lineCategoryName(line)} :
        \E h \in 1..Len(FOOD_HINTS) : includes(name, FOOD_HINTS[h])

\* const s = String(line?.Status || "").toLowerCase(), evaluated once
isVoided(line) ==
    \E s \in {toLowerCase(ToStr(Or(Get(line, "Status"), Str(<<>>))))} :
        \/ Get(line, "IsVoid") = Bool(TRUE)
        \/ Get(line, "Voided") = Bool(TRUE)
        \/ s = <<"v", "o", "i", "d">>
        \/ s = <<"v", "o", "i", "d", "e", "d">>

\* Math.round(n * 100) / 100 on thousandths: halves round up
round2(n) == ((n + 5) \div 10) * 10

-----------------------------------------------------------------------------
(* Upstream data: the orders and pages the order API answers with *)

sFood    == <<"F", "o", "o", "d">>
sHotLine == <<"K", "i", "t", "c", "h", "e", "n", " ", "-", " ", "H", "o", "t",
              " ", "L", "i", "n", "e">>
sBar     == <<"B", "a", "r">>
sPromo   == <<"D", "i", "s", "c", "o", "u", "n", "t">>

\* Order A: a food line of 10.00 and a discount line of 2.00.
OrderA ==
    Obj([OrderID |-> Num(1000),
         Lines |-> Arr(<< Obj([Amount |-> Num(10000), CategoryName |-> Str(sFood)]),
                          Obj([Discount |-> Num(2000), Category |-> Str(sPromo)]) >>)])

\* Order B: voided, amount 5.00, header discount 1.00.
OrderB ==
    Obj([Id |-> Num(2000), DiscountTotal |-> Num(1000),
         Items |-> Arr(<< Obj([LineTotal |-> Num(5000), IsVoid |-> Bool(TRUE),
                               Category |-> Str(sFood)]) >>)])

\* Negative amounts and discounts, amounts sent as strings, a sub-cent amount.
OrderNeg ==
    Obj([OrderID |-> Num(3000), TotalDiscount |-> Num(-1000),
         OrderLines |-> Arr(<<
             Obj([NetTotal |-> Num(-3000), Discount |-> Num(-500),
                  SalesCategoryName |-> Str(sHotLine)]),
             Obj([Total |-> Str(<<"-", "4", ".", "5">>),
                  Status |-> Str(<<"V", "O", "I", "D">>)]),
             Obj([Amount |-> Str(<<"2", ".", "0", "0", "6">>), Family |-> Str(sFood),
                  DiscountAmount |-> Str(<<"0", ".", "5">>), Voided |-> Str(sBar)]) >>)])

\* A voided line that carries a discount, and a non-food line.
OrderVoidDisc ==
    Obj([ID |-> Num(4000),
         CheckLines |-> Arr(<<
             Obj([Amount |-> Num(4000), Voided |-> Bool(TRUE),
                  DiscountAmount |-> Num(1500), MenuGroup |-> Str(sHotLine)]),
             Obj([ExtendedPrice |-> Num(6000), Category |-> Str(sBar),
                  Discount |-> Num(250)]) >>)])

\* A summary row without lines: collectForWeek fetches the full order.
RowBare == Obj([ID |-> Num(5000)])

RowFull ==
    Obj([OrderID |-> Num(6000),
         Lines |-> Arr(<< Obj([LineTotal |-> Num(1005), CategoryName |-> Str(sFood)]) >>)])

\* What GetOrder may answer with.
OrderDetails ==
    { OrderVoidDisc, Obj([OrderID |-> Num(5000), PromotionsTotal |-> Num(750)]), Null }

EmptyPage     == Arr(<<>>)
MalformedPage == Obj([Message |-> Str(sBar)])
PageAB        == Obj([Orders |-> Arr(<<OrderA, OrderB>>)])
PageNeg       == Obj([Data |-> Arr(<<OrderNeg>>)])
PageBare      == Arr(<<OrderVoidDisc, RowBare>>)
FullPage      == Arr([i \in 1..PageSize |-> RowFull])

\* The value a reference refers to; any other value is itself.
Body(x) ==
    IF x.t # "ref" THEN x
    ELSE CASE x.v = "EmptyPage"     -> EmptyPage
           [] x.v = "NullBody"      -> Null
           [] x.v = "MalformedPage" -> MalformedPage
           [] x.v = "PageAB"        -> PageAB
           [] x.v = "PageNeg"       -> PageNeg
           [] x.v = "PageBare"      -> PageBare
           [] x.v = "FullPage"      -> FullPage

BasicPayloads == {Ref("EmptyPage"), Ref("PageAB"), Ref("PageBare")}
AllPayloads   == {Ref("EmptyPage"), Ref("NullBody"), Ref("MalformedPage"), Ref("PageAB"),
                  Ref("PageNeg"), Ref("PageBare"), Ref("FullPage")}

\* payload?.Orders || payload?.Data || payload || []
Rows(p) ==
    Or(Get(Body(p), "Orders"), Or(Get(Body(p), "Data"), Or(Body(p), Arr(<<>>))))

RowCount(p) == IF Rows(p).t = "array" THEN Len(Rows(p).v) ELSE 0

\* const rows = payload?.Orders || payload?.Data || payload || [], as iterated
rows == IF Rows(payload).t = "array" THEN Rows(payload).v ELSE <<>>

-----------------------------------------------------------------------------
(* Initial states *)

Set     == [base |-> TRUE, token |-> TRUE]
NoBase  == [base |-> FALSE, token |-> TRUE]
NoToken == [base |-> TRUE, token |-> FALSE]
Neither == [base |-> FALSE, token |-> FALSE]

Keys == {LOCS[i] : i \in 1..Len(LOCS)}

Configured(e) == {key \in Keys : e[key].base /\ e[key].token}

NoDoc == [f \in {} |-> 0]

InitRun ==
    /\ pc = "main"
    /\ k = 1
    /\ page = 1 /\ orders = 0 /\ food = 0 /\ voids = 0 /\ promos = 0 /\ more = TRUE
    /\ payload = Undefined /\ r = 1 /\ o = Undefined /\ j = 1
    /\ req = <<>> /\ result = "pending" /\ ret = Undefined
    /\ totals = Undefined
    /\ db = [key \in Keys |-> NoDoc]
    /\ listLog = <<>>
    /\ attempted = <<>>
    /\ fetchFailed = {}
    /\ writeCalls = <<>>
    /\ console = <<>>
    /\ exitStatus = -1
    /\ probe = Undefined /\ probeOut = 0

\* Either any subset of the locations is configured and the upstream answers
\* with short pages, or one location is configured and the upstream may also
\* answer with full pages, bodies without rows and malformed bodies.
Init ==
    /\ InitRun
    /\ \/ /\ env \in [Keys -> {Set, NoBase}]
          /\ upstream = BasicPayloads
       \/ /\ \E one \in Keys, unset \in {NoToken, Neither} :
                env = [key \in Keys |-> IF key = one THEN Set ELSE unset]
          /\ upstream = AllPayloads

-----------------------------------------------------------------------------
(* main and collectForWeek *)

locKey == LOCS[k]

collectVars == <<page, orders, food, voids, promos, more, payload, r, o, j>>
callVars    == <<req, result, ret>>
histVars    == <<db, listLog, attempted, fetchFailed, writeCalls, console, exitStatus>>
probeVars   == <<probe, probeOut>>
envVars     == <<env, upstream>>

\* main: a location without base or token is skipped with a warning.
SkipLocation ==
    /\ pc = "main" /\ k <= Len(LOCS)
    /\ ~(env[locKey].base /\ env[locKey].token)
    /\ console' = Append(console, [level |-> "warn", loc |-> locKey])
    /\ k' = k + 1
    /\ UNCHANGED <<pc, collectVars, callVars, totals, db, listLog, attempted,
                   fetchFailed, writeCalls, exitStatus, probeVars, envVars>>

\* main calls collectForWeek, which initialises its locals and calls listOrders.
StartCollect ==
    /\ pc = "main" /\ k <= Len(LOCS)
    /\ env[locKey].base /\ env[locKey].token
    /\ attempted' = Append(attempted, locKey)
    /\ page' = 1 /\ orders' = 0 /\ food' = 0 /\ voids' = 0 /\ promos' = 0
    /\ more' = TRUE
    /\ payload' = Undefined /\ r' = 1 /\ o' = Undefined /\ j' = 1
    /\ req' = <<>> /\ result' = "pending" /\ ret' = Undefined
    /\ totals' = Undefined
    /\ listLog' = <<>>
    /\ pc' = "listOrders"
    /\ UNCHANGED <<k, db, fetchFailed, writeCalls, console, exitStatus, probeVars,
                   envVars>>

\* main().then(() => process.exit(0))
Exit ==
    /\ pc = "main" /\ k > Len(LOCS)
    /\ pc' = "exit"
    /\ exitStatus' = 0
    /\ UNCHANGED <<k, collectVars, callVars, totals, db, listLog, attempted,
                   fetchFailed, writeCalls, console, probeVars, envVars>>

\* The bodies the upstream may answer the request for the current page with:
\* its data ends, so past MaxPages full pages it answers with a shorter one.
Answers == {p \in upstream : page > MaxPages => RowCount(p) < PageSize}

\* One swFetch: the request is logged with its outcome.
Request(method, path, arg, ok, body) ==
    [method |-> method, path |-> path, arg |-> arg, ok |-> ok, body |-> body]

\* listOrders: the POST with a body.
ListOrdersPrimary ==
    /\ pc = "listOrders" /\ Len(req) = 0
    /\ \/ \E p \in Answers :
            /\ req' = Append(req, Request("POST", "GetOrders", page, TRUE, p))
            /\ result' = "ok" /\ ret' = p
            /\ pc' = "page"
       \/ /\ req' = Append(req, Request("POST", "GetOrders", page, FALSE, Undefined))
          /\ UNCHANGED <<result, ret, pc>>
    /\ UNCHANGED <<k, collectVars, totals, histVars, probeVars, envVars>>

ListOrdersFallback_retry ==
    /\ pc = "listOrders" /\ Len(req) >= 1
    /\ \/ \E p \in Answers :
            /\ req' = Append(req, Request("GET", "GetOrders", page, TRUE, p))
            /\ result' = "ok" /\ ret' = p
            /\ pc' = "page"
            /\ UNCHANGED fetchFailed
       \/ /\ Len(req) = 1
          /\ req' = Append(req, Request("GET", "GetOrders", page, FALSE, Undefined))
          /\ UNCHANGED <<result, ret, pc, fetchFailed>>
       \/ /\ Len(req) = 2
          /\ req' = Append(req, Request("GET", "GetOrders", page, FALSE, Undefined))
          /\ result' = "error" /\ ret' = Undefined
          /\ fetchFailed' = fetchFailed \cup {locKey}
          /\ pc' = "catch"
    /\ UNCHANGED <<k, collectVars, totals, db, listLog, attempted, writeCalls,
                   console, exitStatus, probeVars, envVars>>

ListOrdersFallback_swallow ==
    /\ pc = "listOrders" /\ Len(req) = 1
    /\ \/ \E p \in Answers :
            /\ req' = Append(req, Request("GET", "GetOrders", page, TRUE, p))
            /\ result' = "ok" /\ ret' = p
            /\ pc' = "page"
            /\ UNCHANGED fetchFailed
       \/ /\ req' = Append(req, Request("GET", "GetOrders", page, FALSE, Undefined))
          /\ result' = "error" /\ ret' = Arr(<<>>)
          /\ fetchFailed' = fetchFailed \cup {locKey}
          /\ pc' = "page"
    /\ UNCHANGED <<k, collectVars, totals, db, listLog, attempted, writeCalls,
                   console, exitStatus, probeVars, envVars>>

\* listOrders: after the POST failed, the GET with a query string; its failure
\* is the call's failure.
ListOrdersFallback ==
    /\ pc = "listOrders" /\ Len(req) = 1
    /\ \/ \E p \in Answers :
            /\ req' = Append(req, Request("GET", "GetOrders", page, TRUE, p))
            /\ result' = "ok" /\ ret' = p
            /\ pc' = "page"
            /\ UNCHANGED fetchFailed
       \/ /\ req' = Append(req, Request("GET", "GetOrders", page, FALSE, Undefined))
          /\ result' = "error" /\ ret' = Undefined
          /\ fetchFailed' = fetchFailed \cup {locKey}
          /\ pc' = "catch"
    /\ UNCHANGED <<k, collectVars, totals, db, listLog, attempted, writeCalls,
                   console, exitStatus, probeVars, envVars>>

\* return { ..., food: round2(food), voids: round2(voids), promos: round2(promos) }
Totals(n, f, v, p) ==
    [orders |-> n, food |-> round2(f), voids |-> round2(v), promos |-> round2(p)]

morePages_nonEmpty(rs) == Len(rs) > 0

\* more = rows.length >= 500
morePages(rs) == Len(rs) >= PageSize

ReceivePage_strict ==
    /\ pc = "page"
    /\ payload' = ret
    /\ listLog' = Append(listLog, [page |-> page, body |-> ret,
                                   count |-> RowCount(ret)])
    /\ IF Rows(ret).t # "array"
       THEN /\ pc' = "catch"
            /\ UNCHANGED <<more, totals, r>>
       ELSE IF RowCount(ret) = 0
       THEN /\ more' = FALSE
            /\ totals' = Totals(orders, food, voids, promos)
            /\ pc' = "writeOverrides"
            /\ UNCHANGED r
       ELSE /\ r' = 1
            /\ pc' = "row"
            /\ UNCHANGED <<more, totals>>
    /\ req' = <<>> /\ result' = "pending" /\ ret' = Undefined
    /\ UNCHANGED <<k, page, orders, food, voids, promos, o, j, db, attempted,
                   fetchFailed, writeCalls, console, exitStatus, probeVars, envVars>>

\* collectForWeek: the rows of the page listOrders returned; no rows ends paging.
ReceivePage ==
    /\ pc = "page"
    /\ payload' = ret
    /\ listLog' = Append(listLog, [page |-> page, body |-> ret,
                                   count |-> RowCount(ret)])
    /\ IF RowCount(ret) = 0
       THEN /\ more' = FALSE
            /\ totals' = Totals(orders, food, voids, promos)
            /\ pc' = "writeOverrides"
            /\ UNCHANGED r
       ELSE /\ r' = 1
            /\ pc' = "row"
            /\ UNCHANGED <<more, totals>>
    /\ req' = <<>> /\ result' = "pending" /\ ret' = Undefined
    /\ UNCHANGED <<k, page, orders, food, voids, promos, o, j, db, attempted,
                   fetchFailed, writeCalls, console, exitStatus, probeVars, envVars>>

\* row?.OrderID ?? row?.Id ?? row?.ID
orderIdOf(row) == Coalesce(Get(row, "OrderID"), Coalesce(Get(row, "Id"), Get(row, "ID")))

\* collectForWeek: the next row is counted; without lines its order is fetched.
NextRow ==
    /\ pc = "row" /\ r <= Len(rows)
    /\ orders' = orders + 1
    /\ IF Len(orderLines(rows[r])) > 0
       THEN /\ o' = rows[r]
            /\ j' = 1
            /\ pc' = "line"
       ELSE /\ pc' = "getOrder"
            /\ UNCHANGED <<o, j>>
    /\ req' = <<>> /\ result' = "pending" /\ ret' = Undefined
    /\ UNCHANGED <<k, page, food, voids, promos, more, payload, r, totals, histVars,
                   probeVars, envVars>>

\* collectForWeek: after the last row of a page, the pager test; the loop goes
\* on with the next page or the rounded totals are returned.
EndPage ==
    /\ pc = "row" /\ r > Len(rows)
    /\ more' = morePages(rows)
    /\ page' = page + 1
    /\ IF more'
       THEN /\ pc' = "listOrders"
            /\ UNCHANGED totals
       ELSE /\ pc' = "writeOverrides"
            /\ totals' = Totals(orders, food, voids, promos)
    /\ r' = 1
    /\ req' = <<>> /\ result' = "pending" /\ ret' = Undefined
    /\ UNCHANGED <<k, orders, food, voids, promos, payload, o, j, histVars,
                   probeVars, envVars>>

\* getOrder: the POST with a body.
GetOrderPrimary ==
    /\ pc = "getOrder" /\ Len(req) = 0
    /\ \/ \E d \in OrderDetails :
            /\ req' = Append(req, Request("POST", "GetOrder", orderIdOf(rows[r]), TRUE, d))
            /\ result' = "ok" /\ ret' = d
            /\ pc' = "order"
       \/ /\ req' = Append(req, Request("POST", "GetOrder", orderIdOf(rows[r]), FALSE,
                                       Undefined))
          /\ UNCHANGED <<result, ret, pc>>
    /\ UNCHANGED <<k, collectVars, totals, histVars, probeVars, envVars>>

\* getOrder: after the POST failed, the GET with a query string.
GetOrderFallback ==
    /\ pc = "getOrder" /\ Len(req) = 1
    /\ \/ \E d \in OrderDetails :
            /\ req' = Append(req, Request("GET", "GetOrder", orderIdOf(rows[r]), TRUE, d))
            /\ result' = "ok" /\ ret' = d
            /\ pc' = "order"
            /\ UNCHANGED fetchFailed
       \/ /\ req' = Append(req, Request("GET", "GetOrder", orderIdOf(rows[r]), FALSE,
                                       Undefined))
          /\ result' = "error" /\ ret' = Undefined
          /\ fetchFailed' = fetchFailed \cup {locKey}
          /\ pc' = "catch"
    /\ UNCHANGED <<k, collectVars, totals, db, listLog, attempted, writeCalls,
                   console, exitStatus, probeVars, envVars>>

\* collectForWeek: the fetched order takes the row's place.
ReceiveOrder ==
    /\ pc = "order"
    /\ o' = ret
    /\ j' = 1
    /\ pc' = "line"
    /\ req' = <<>> /\ result' = "pending" /\ ret' = Undefined
    /\ UNCHANGED <<k, page, orders, food, voids, promos, more, payload, r, totals,
                   histVars, probeVars, envVars>>

addLine_noContinue(ln, f, v, p) ==
    LET amt == lineTotal(ln)
    IN  [food   |-> IF looksLikeFood(ln) THEN f + Max(amt, 0) ELSE f,
         voids  |-> IF isVoided(ln) THEN v + Max(amt, 0) ELSE v,
         promos |-> p + Max(lineDiscount(ln), 0)]

addLine_noClamp(ln, f, v, p) ==
    LET amt == lineTotal(ln)
    IN  IF isVoided(ln)
        THEN [food |-> f, voids |-> v + amt, promos |-> p]
        ELSE [food   |-> IF looksLikeFood(ln) THEN f + amt ELSE f,
              voids  |-> v,
              promos |-> p + lineDiscount(ln)]

\* The body of the loop over an order's lines: the running totals after ln.
addLine(ln, f, v, p) ==
    LET amt == lineTotal(ln)
    IN  IF isVoided(ln)
        THEN [food |-> f, voids |-> v + Max(amt, 0), promos |-> p]
        ELSE [food   |-> IF looksLikeFood(ln) THEN f + Max(amt, 0) ELSE f,
              voids  |-> v,
              promos |-> p + Max(lineDiscount(ln), 0)]

\* collectForWeek: one line of the order.
Line ==
    /\ pc = "line" /\ j <= Len(orderLines(o))
    /\ \E ln \in {orderLines(o)[j]} :
          \E t \in {addLine(ln, food, voids, promos)} :
             food' = t.food /\ voids' = t.voids /\ promos' = t.promos
    /\ j' = j + 1
    /\ UNCHANGED <<pc, k, page, orders, more, payload, r, o, callVars, totals, histVars,
                   probeVars, envVars>>

headerPromos_none(x, p) == p

\* promos += Math.max(orderHeaderDiscount(o), 0)
headerPromos(x, p) == p + Max(orderHeaderDiscount(x), 0)

\* collectForWeek: after the lines, the order's header discount.
EndOrder ==
    /\ pc = "line" /\ j > Len(orderLines(o))
    /\ promos' = headerPromos(o, promos)
    /\ r' = r + 1
    /\ o' = Undefined /\ j' = 1
    /\ pc' = "row"
    /\ UNCHANGED <<k, page, orders, food, voids, more, payload, callVars, totals,
                   histVars, probeVars, envVars>>

\* ref.set(doc, { merge: true })
Merge(old, new) ==
    [f \in DOMAIN old \cup DOMAIN new |-> IF f \in DOMAIN new THEN new[f] ELSE old[f]]

OverrideDoc(t) ==
    [food_sales |-> t.food, voids |-> t.voids, comps |-> t.promos,
     source_silverware |-> [orders |-> t.orders, days_scanned |-> 7,
                            last_run |-> "now"]]

\* main: writeOverrides with the totals collectForWeek returned; a rejected
\* write is caught like a failed fetch.
WriteOverrides ==
    /\ pc = "writeOverrides"
    /\ writeCalls' = Append(writeCalls, [loc |-> locKey, totals |-> totals])
    /\ \/ /\ db' = [db EXCEPT ![locKey] = Merge(db[locKey], OverrideDoc(totals))]
          /\ console' = Append(console, [level |-> "log", loc |-> locKey])
       \/ /\ console' = Append(console, [level |-> "error", loc |-> locKey])
          /\ UNCHANGED db
    /\ k' = k + 1
    /\ pc' = "main"
    /\ UNCHANGED <<collectVars, callVars, totals, listLog, attempted, fetchFailed,
                   exitStatus, probeVars, envVars>>

Catch_abort ==
    /\ pc = "catch"
    /\ console' = Append(console, [level |-> "error", loc |-> locKey])
    /\ pc' = "exit"
    /\ exitStatus' = 1
    /\ req' = <<>> /\ result' = "pending" /\ ret' = Undefined
    /\ UNCHANGED <<k, collectVars, totals, db, listLog, attempted, fetchFailed,
                   writeCalls, probeVars, envVars>>

\* main: the catch of the location's try block.
Catch ==
    /\ pc = "catch"
    /\ console' = Append(console, [level |-> "error", loc |-> locKey])
    /\ k' = k + 1
    /\ pc' = "main"
    /\ req' = <<>> /\ result' = "pending" /\ ret' = Undefined
    /\ UNCHANGED <<collectVars, totals, db, listLog, attempted, fetchFailed,
                   writeCalls, exitStatus, probeVars, envVars>>

Next ==
    \/ SkipLocation
    \/ StartCollect
    \/ Exit
    \/ ListOrdersPrimary
    \/ ListOrdersFallback
    \/ ReceivePage
    \/ NextRow
    \/ EndPage
    \/ GetOrderPrimary
    \/ GetOrderFallback
    \/ ReceiveOrder
    \/ Line
    \/ EndOrder
    \/ WriteOverrides
    \/ Catch

Spec == Init /\ [][Next]_vars

\* Every awaited request settles and the script runs on.
FairSpec == Spec /\ WF_vars(Next)

-----------------------------------------------------------------------------
(* lineTotal on its own: every combination of the five amount fields *)

AmountFields == <<"NetTotal", "LineTotal", "ExtendedPrice", "Total", "Amount">>

\* What the i-th field may hold; Absent leaves the field out of the record.
Absent == [t |-> "absent"]

FieldValues(i) ==
    {Absent, Null, Num(0), Num(i * 1000), Str(<<"x">>), Str(<<Digits[i + 1]>>)}

ProbeLines ==
    {Obj([f \in {AmountFields[i] : i \in {n \in 1..5 : c[n] # Absent}} |->
             c[CHOOSE i \in 1..5 : AmountFields[i] = f]]) :
        c \in {c \in [1..5 -> UNION {FieldValues(i) : i \in 1..5}] :
                 \A i \in 1..5 : c[i] \in FieldValues(i)}}

InitProbe ==
    /\ pc = "probe"
    /\ probe \in ProbeLines
    /\ probeOut = 0
    /\ k = 1
    /\ page = 1 /\ orders = 0 /\ food = 0 /\ voids = 0 /\ promos = 0 /\ more = TRUE
    /\ payload = Undefined /\ r = 1 /\ o = Undefined /\ j = 1
    /\ req = <<>> /\ result = "pending" /\ ret = Undefined
    /\ totals = Undefined
    /\ db = [key \in Keys |-> NoDoc]
    /\ listLog = <<>> /\ attempted = <<>> /\ fetchFailed = {}
    /\ writeCalls = <<>> /\ console = <<>> /\ exitStatus = -1
    /\ env = [key \in Keys |-> Neither]
    /\ upstream = {}

ProbeLineTotal ==
    /\ pc = "probe"
    /\ probeOut' = lineTotal(probe)
    /\ pc' = "probed"
    /\ UNCHANGED <<k, collectVars, callVars, totals, histVars, probe, envVars>>

NextProbe == ProbeLineTotal

SpecProbe == InitProbe /\ [][NextProbe]_vars

-----------------------------------------------------------------------------
(* Properties *)

Last(s) == s[Len(s)]

RECURSIVE SumCounts(_)
SumCounts(log) ==
    IF Len(log) = 0 THEN 0
    ELSE SumCounts(SubSeq(log, 1, Len(log) - 1)) + Last(log).count

\* The locations main has to attempt, in the order of LOCS.
ConfiguredSeq == SelectSeq(LOCS, LAMBDA x : env[x].base /\ env[x].token)

Collecting == pc \in {"listOrders", "page", "row", "getOrder", "order", "line"}

\* C1: a location whose listOrders or getOrder call failed unrecovered (primary
\* and fallback both failed), on whatever page or row, is never handed to
\* writeOverrides and nothing is stored for it.
C1_NoWriteAfterFetchFailure ==
    \A loc \in fetchFailed :
        /\ \A i \in 1..Len(writeCalls) : writeCalls[i].loc # loc
        /\ db[loc] = NoDoc

\* A fetch failed after totals had been accumulated, and the run has ended.
C1_Witness ==
    /\ pc = "exit"
    /\ fetchFailed # {}
    /\ orders > 0 /\ voids > 0

\* C2: whatever fails for a location (a fetch or the write), every location with
\* base and token is attempted, in configuration order, and the run ends with
\* exit status 0.
C2_AllLocationsAttempted ==
    /\ [](/\ Len(attempted) <= Len(ConfiguredSeq)
          /\ attempted = SubSeq(ConfiguredSeq, 1, Len(attempted)))
    /\ [](pc = "exit" => attempted = ConfiguredSeq /\ exitStatus = 0)
    /\ <>(pc = "exit")

\* The run ended after a failed fetch for one location, a failed write for
\* another, and a later location written.
C2_Witness ==
    /\ pc = "exit"
    /\ \E a, b, c \in 1..Len(attempted) :
          /\ a < c /\ b < c
          /\ attempted[a] \in fetchFailed
          /\ attempted[b] \notin fetchFailed /\ db[attempted[b]] = NoDoc
          /\ db[attempted[c]] # NoDoc

\* C3: every processed line adds the clamped lineDiscount to promos, whether the
\* line is food, non-food or voided.
C3_DiscountAlwaysCounted ==
    [][(pc = "line" /\ j <= Len(orderLines(o)))
          => promos' = promos + Max(lineDiscount(orderLines(o)[j]), 0)]_vars

\* C4: a voided line, whatever its category, leaves food unchanged and adds
\* max(lineTotal, 0) to voids; no line raises both food and voids.
C4_VoidedExcludedFromFood ==
    [][(pc = "line" /\ j <= Len(orderLines(o)))
          => /\ isVoided(orderLines(o)[j])
                  => /\ food' = food
                     /\ voids' = voids + Max(lineTotal(orderLines(o)[j]), 0)
             /\ ~(food' > food /\ voids' > voids)]_vars

\* A voided line with a food category and a positive amount has been processed.
C4_Witness ==
    /\ pc = "line" /\ j > 1
    /\ isVoided(orderLines(o)[j - 1])
    /\ looksLikeFood(orderLines(o)[j - 1])
    /\ lineTotal(orderLines(o)[j - 1]) > 0
    /\ voids > 0

\* C5: the running totals are never negative and never decrease within one
\* collectForWeek, and the totals returned and written are not negative.
C5_Clamping ==
    /\ [](food >= 0 /\ voids >= 0 /\ promos >= 0)
    /\ [](pc = "writeOverrides"
             => totals.food >= 0 /\ totals.voids >= 0 /\ totals.promos >= 0)
    /\ [](\A i \in 1..Len(writeCalls) :
             /\ writeCalls[i].totals.food >= 0
             /\ writeCalls[i].totals.voids >= 0
             /\ writeCalls[i].totals.promos >= 0)
    /\ [][Collecting => food' >= food /\ voids' >= voids /\ promos' >= promos]_vars

\* A food line with a negative amount and a negative discount, a voided line
\* with a negative amount and a negative header discount have been processed.
C5_Witness ==
    /\ pc = "writeOverrides"
    /\ \E i \in 1..Len(listLog) : listLog[i].body = Ref("PageNeg")
    /\ lineTotal(orderLines(OrderNeg)[1]) < 0
    /\ lineDiscount(orderLines(OrderNeg)[1]) < 0
    /\ looksLikeFood(orderLines(OrderNeg)[1])
    /\ isVoided(orderLines(OrderNeg)[2]) /\ lineTotal(orderLines(OrderNeg)[2]) < 0
    /\ orderHeaderDiscount(OrderNeg) < 0

\* C6: pages are asked for as 1, 2, 3, ...; a page with fewer than 500 rows, or
\* none, is the last one asked for, its rows are processed, and collectForWeek
\* returns; with the upstream's data ending, collectForWeek always returns.
C6_PaginationTermination ==
    /\ [](\A i \in 1..Len(listLog) :
             /\ listLog[i].page = i
             /\ i < Len(listLog) => listLog[i].count >= PageSize)
    /\ [](pc = "listOrders"
             => /\ page = Len(listLog) + 1
                /\ \A i \in 1..Len(listLog) : listLog[i].count >= PageSize)
    /\ [](pc = "writeOverrides"
             => /\ Last(listLog).count < PageSize
                /\ totals.orders = SumCounts(listLog))
    /\ [][(pc = "row" /\ r > Len(rows) /\ Len(rows) < PageSize)
             => pc' = "writeOverrides"]_vars
    /\ (Collecting ~> pc \in {"writeOverrides", "catch"})

\* Two full pages were followed by an empty one and collectForWeek returned.
C6_Witness ==
    /\ pc = "writeOverrides"
    /\ Len(listLog) = 3
    /\ listLog[1].count = PageSize /\ listLog[2].count = PageSize
    /\ listLog[3].count = 0
    /\ totals.orders = 2 * PageSize

\* C7: a single page with order A (a food line of 10.00, a discount line of
\* 2.00) and order B (voided, 5.00, header discount 1.00) gives
\* orders=2, food=10.00, voids=5.00, promos=3.00, and these totals are what
\* writeOverrides is called with.
C7_EndToEnd ==
    /\ []((pc = "writeOverrides" /\ Len(listLog) = 1 /\ listLog[1].body = Ref("PageAB"))
             => totals = [orders |-> 2, food |-> 10000, voids |-> 5000,
                          promos |-> 3000])
    /\ [][pc = "writeOverrides"
             => writeCalls' = Append(writeCalls, [loc |-> locKey, totals |-> totals])]_vars

\* The page of orders A and B was written for a location.
C7_Witness ==
    /\ pc = "main"
    /\ Len(listLog) = 1 /\ listLog[1].body = Ref("PageAB")
    /\ Len(writeCalls) > 0
    /\ Last(writeCalls).totals.food = 10000
    /\ db[Last(writeCalls).loc] # NoDoc
    /\ db[Last(writeCalls).loc].comps = 3000

\* C8: a listOrders or getOrder call issues the POST first, the GET only after
\* the POST failed and at most once, both with the same parameters; it returns
\* the body of the request that succeeded and raises only when both failed.
C8_TwoStepRequest ==
    /\ Len(req) <= 2
    /\ Len(req) >= 1 => req[1].method = "POST"
    /\ Len(req) = 2 => /\ ~req[1].ok
                       /\ req[2].method = "GET"
                       /\ req[2].path = req[1].path /\ req[2].arg = req[1].arg
    /\ result = "ok" => /\ Len(req) >= 1
                        /\ Last(req).ok
                        /\ ret = Last(req).body
    /\ result = "error" => /\ Len(req) = 2
                           /\ ~req[1].ok /\ ~req[2].ok
    /\ result = "pending" => \A i \in 1..Len(req) : ~req[i].ok
    /\ pc = "catch" => result = "error"

\* A getOrder call was answered by its fallback request.
C8_Witness ==
    /\ pc = "order"
    /\ result = "ok"
    /\ Len(req) = 2
    /\ req[2].path = "GetOrder"

\* No row collection under a known field name, and not an array.
Malformed(p) ==
    /\ Body(p).t # "array"
    /\ Get(Body(p), "Orders").t = "undefined"
    /\ Get(Body(p), "Data").t = "undefined"

\* C9: a malformed body ends paging like an empty page: no error, no further
\* listOrders call, and writeOverrides is called with the totals of the
\* earlier pages (all zero when it is the first page).
C9_MalformedIsEmptyPage ==
    /\ [][(pc = "page" /\ Malformed(ret))
             => /\ pc' = "writeOverrides"
                /\ totals' = [orders |-> orders, food |-> round2(food),
                              voids |-> round2(voids), promos |-> round2(promos)]
                /\ totals'.orders = SumCounts(listLog)
                /\ Len(listLog) = 0
                      => totals' = [orders |-> 0, food |-> 0, voids |-> 0,
                                    promos |-> 0]
                /\ UNCHANGED <<fetchFailed, console>>]_vars
    /\ [](\A i \in 1..Len(listLog) : Malformed(listLog[i].body) => i = Len(listLog))
    /\ []((pc = "listOrders" /\ Len(listLog) > 0) => ~Malformed(Last(listLog).body))
    /\ [][pc = "writeOverrides"
             => /\ Len(writeCalls') = Len(writeCalls) + 1
                /\ Last(writeCalls') = [loc |-> locKey, totals |-> totals]]_vars

\* After a full page, a malformed body ended paging and the totals were written.
C9_Witness ==
    /\ pc = "main"
    /\ Len(listLog) = 2
    /\ listLog[1].count = PageSize
    /\ Malformed(listLog[2].body) /\ listLog[2].body = Ref("MalformedPage")
    /\ Len(writeCalls) = 1
    /\ writeCalls[1].totals.orders = PageSize
    /\ writeCalls[1].totals.food > 0

AmountOf(line, i) == num(Get(line, AmountFields[i]))

\* The field holds a number (zero included) or a non-empty string.
Populated(line, f) ==
    \/ Get(line, f).t = "number"
    \/ Get(line, f).t = "string" /\ Len(Get(line, f).v) > 0

\* C10 as stated: the first-listed amount field that is populated wins, and
\* NetTotal beats LineTotal when both are present.
C10_FirstPresentWins ==
    pc = "probed"
       => /\ (Populated(probe, "NetTotal") /\ Populated(probe, "LineTotal"))
                => probeOut = AmountOf(probe, 1)
          /\ \A i \in 1..5 :
                (/\ Populated(probe, AmountFields[i])
                 /\ \A n \in 1..(i - 1) : ~Populated(probe, AmountFields[n]))
                    => probeOut = AmountOf(probe, i)

\* C10: lineTotal is the coerced value of the first field, in the order
\* NetTotal, LineTotal, ExtendedPrice, Total, Amount, whose coerced value is
\* not zero (NetTotal beats LineTotal when both are non-zero), and zero when
\* no field has a non-zero coerced value.
C10_FirstNonZeroWins ==
    pc = "probed"
       => /\ \A i \in 1..5 :
                (AmountOf(probe, i) # 0 /\ \A n \in 1..(i - 1) : AmountOf(probe, n) = 0)
                    => probeOut = AmountOf(probe, i)
          /\ (\A i \in 1..5 : AmountOf(probe, i) = 0) => probeOut = 0

\* NetTotal and LineTotal both hold non-zero amounts and NetTotal was returned.
C10_Witness ==
    /\ pc = "probed"
    /\ AmountOf(probe, 1) # 0 /\ AmountOf(probe, 2) # 0
    /\ AmountOf(probe, 1) # AmountOf(probe, 2)
    /\ probeOut = AmountOf(probe, 1)

====
